---- MODULE Spec2Model ----
(***************************************************************************)
(* A model of src/server.py: a static file server whose request handler,   *)
(* NoCacheHandler, overrides end_headers to add one Cache-Control field    *)
(* before delegating to the inherited end_headers, run by a                *)
(* single-threaded HTTPServer.serve_forever loop.                          *)
(*                                                                         *)
(* The three lines of the override are modelled together with the parts of *)
(* the inherited handler and serve loop they run inside (the classes that  *)
(* line 1 imports, line 3 subclasses and line 8 instantiates): request     *)
(* line parsing, the choice of status, the header buffer, its flush to the *)
(* connection and the body transfer.                                       *)
(*                                                                         *)
(* A response is the sequence of tokens written to the connection: a       *)
(* status line, header fields, the blank line ending the headers, a body.  *)
(***************************************************************************)
EXTENDS Integers, Sequences, FiniteSets

\* ------------------------------------------------------------------ bounds
\* Connections a behaviour opens.
MaxConns == 3

Conns == 1..MaxConns

\* ------------------------------------------------------------- the program
\* The value of the field the override adds (src/server.py line 5).
NoCacheValue == "no-cache, no-store, must-revalidate"

\* BaseHTTPRequestHandler.protocol_version, "HTTP/1.0", which NoCacheHandler
\* does not change; kept as (major, minor).
protocol_version == <<1, 0>>

\* BaseHTTPRequestHandler.default_request_version.
default_request_version == "HTTP/0.9"

None == "None"

\* ---------------------------------------------------------- the filesystem
\* The tree under the server root, unchanged during a run.  The root holds
\* index.html; d is a directory without index that can be listed; dn is a
\* directory whose listing raises OSError; f is a readable file; u is a
\* file whose open raises OSError.  Any other name does not exist.
FileMtime == 2

Entry(kind, content, index, listable, readable) ==
    [kind |-> kind, content |-> content, index |-> index,
     listable |-> listable, readable |-> readable]

\* len() of the contents the tree holds.
Size(content) ==
    CASE content = "<h1>hi</h1>" -> 11
      [] content = "file-bytes"  -> 10
      [] OTHER                   -> 0

NoEntry == Entry("none", "", "", FALSE, FALSE)

FS(segs) ==
    CASE segs = <<>>       -> Entry("dir", "", "<h1>hi</h1>", TRUE, TRUE)
      [] segs = <<"f">>    -> Entry("file", "file-bytes", "", FALSE, TRUE)
      [] segs = <<"u">>    -> Entry("file", "secret", "", FALSE, FALSE)
      [] segs = <<"d">>    -> Entry("dir", "", "", TRUE, TRUE)
      [] segs = <<"dn">>   -> Entry("dir", "", "", FALSE, TRUE)
      [] OTHER             -> NoEntry

\* ------------------------------------------------------------ the requests
\* A request target: the path's segments and whether it ends in a slash.
Path(segs, slash) == [segs |-> segs, slash |-> slash]

Paths ==
    {Path(<<>>, TRUE)} \cup
    {Path(<<n>>, s) : n \in {"f", "u", "d", "dn", "missing"}, s \in BOOLEAN}

\* Request header fields the handler reads.  ims: If-Modified-Since as a
\* time (0 absent, -1 ill-formed); inm: If-None-Match present; conn: the
\* Connection field; expect: Expect: 100-continue; fault: what
\* http.client.parse_headers raises.
Hdr(ims, inm, conn, expect, fault) ==
    [ims |-> ims, inm |-> inm, conn |-> conn, expect |-> expect, fault |-> fault]

NoHdr == Hdr(0, FALSE, "", FALSE, "")

\* A word of the request line.
W(s) == [s |-> s, p |-> Path(<<>>, TRUE)]
WP(p) == [s |-> "", p |-> p]

\* raw: "eof" (the client closed without sending), "long" (a request line
\* over 65536 bytes) or "ok"; words: requestline.split().
Req(raw, words, hdr) == [raw |-> raw, words |-> words, hdr |-> hdr]

Methods == {"GET", "HEAD", "POST"}

Versions == {"HTTP/1.0", "HTTP/1.1", "HTTP/0.9", "HTTP/2.0", "junk"}

HdrVariants ==
    {Hdr(-1, FALSE, "", FALSE, ""), Hdr(1, FALSE, "", FALSE, ""),
     Hdr(2, FALSE, "", FALSE, ""), Hdr(3, FALSE, "", FALSE, ""),
     Hdr(3, TRUE, "", FALSE, ""), Hdr(0, FALSE, "keep-alive", FALSE, ""),
     Hdr(0, FALSE, "", TRUE, ""), Hdr(0, FALSE, "", FALSE, "LineTooLong"),
     Hdr(0, FALSE, "", FALSE, "TooMany")}

Requests ==
    {Req("ok", <<W(m), WP(p), W("HTTP/1.0")>>, NoHdr) : m \in Methods, p \in Paths}
    \cup {Req("ok", <<W("GET"), WP(p), W(v)>>, NoHdr) :
            p \in {Path(<<"f">>, FALSE), Path(<<"missing">>, FALSE), Path(<<"d">>, TRUE)},
            v \in Versions}
    \cup {Req("ok", <<W(m), WP(p)>>, NoHdr) :
            m \in {"GET", "POST"},
            p \in {Path(<<"f">>, FALSE), Path(<<"missing">>, FALSE)}}
    \cup {Req("ok", <<W("GET"), WP(p), W("HTTP/1.1")>>, h) :
            p \in {Path(<<"f">>, FALSE), Path(<<>>, TRUE)}, h \in HdrVariants}
    \cup {Req("ok", <<W("HEAD"), WP(Path(<<"f">>, FALSE)), W("HTTP/1.1")>>,
              Hdr(3, FALSE, "", FALSE, ""))}
    \cup {Req("ok", <<W("GET"), WP(Path(<<"f">>, FALSE)), W("x"), W(v)>> , NoHdr) :
            v \in {"HTTP/1.0", "junk"}}
    \cup {Req("ok", <<W("GET")>>, NoHdr), Req("ok", <<>>, NoHdr),
          Req("eof", <<>>, NoHdr), Req("long", <<>>, NoHdr)}

\* ------------------------------------------------- the response being built
\* A token written to the header buffer or to the connection.
Tok(t, code, k, v) == [t |-> t, code |-> code, k |-> k, v |-> v]

\* The part of a handler that builds a response: request_version, the
\* header buffer (_headers_buffer), the bytes written to the connection
\* (wfile) and close_connection.
Writer(rv, close) == [rv |-> rv, buf |-> <<>>, wire |-> <<>>, close |-> close]

\* str.lower() on the header names and values the handler compares.
Lower(s) ==
    CASE s = "Connection" -> "connection"
      [] s = "Close"      -> "close"
      [] s = "Keep-Alive" -> "keep-alive"
      [] OTHER            -> s

\* BaseHTTPRequestHandler.send_response_only: the status line goes to the
\* header buffer, unless the request is an HTTP/0.9 one.
send_response_only(w, code, message) ==
    IF w.rv # "HTTP/0.9"
    THEN [w EXCEPT !.buf = Append(@, Tok("status", code, "HTTP/1.0", message))]
    ELSE w

\* BaseHTTPRequestHandler.send_header: the field goes to the header buffer,
\* unless the request is an HTTP/0.9 one; a Connection field also sets
\* close_connection.
send_header(w, keyword, value) ==
    LET w1 == IF w.rv # "HTTP/0.9"
              THEN [w EXCEPT !.buf = Append(@, Tok("hdr", 0, keyword, value))]
              ELSE w
    IN  IF Lower(keyword) = "connection"
        THEN IF Lower(value) = "close" THEN [w1 EXCEPT !.close = TRUE]
             ELSE IF Lower(value) = "keep-alive" THEN [w1 EXCEPT !.close = FALSE]
             ELSE w1
        ELSE w1

\* The Date field: send_header('Date', self.date_time_string()), the time
\* of the call kept in the token's number.
send_date(w, now) ==
    IF w.rv # "HTTP/0.9"
    THEN [w EXCEPT !.buf = Append(@, Tok("hdr", now, "Date", ""))]
    ELSE w

\* BaseHTTPRequestHandler.send_response: status line, Server, Date.
send_response(w, code, message, now) ==
    send_date(send_header(send_response_only(w, code, message),
                          "Server", "SimpleHTTP"), now)

\* BaseHTTPRequestHandler.flush_headers: one write of the joined buffer,
\* then the buffer is emptied.
flush_headers(w) == [w EXCEPT !.wire = @ \o w.buf, !.buf = <<>>]

\* The inherited end_headers, which line 6 calls: the blank line and the
\* flush, unless the request is an HTTP/0.9 one.
super_end_headers(w) ==
    IF w.rv # "HTTP/0.9"
    THEN flush_headers([w EXCEPT !.buf = Append(@, Tok("end", 0, "", ""))])
    ELSE w

\* Variants of line 5 that a slip would produce: a shorter value; the
\* field only on a 200 response; the field written over the headers already
\* buffered; the three fields of a larger cache-busting set; the header
\* block ended before the field is added.
send_header_short_value(w) == send_header(w, "Cache-Control", "no-cache")

send_header_on_success(w) ==
    IF w.buf # <<>> /\ w.buf[1].code = 200
    THEN send_header(w, "Cache-Control", NoCacheValue) ELSE w

send_header_overwriting(w) ==
    IF w.rv # "HTTP/0.9"
    THEN [w EXCEPT !.buf = <<w.buf[1], Tok("hdr", 0, "Cache-Control", NoCacheValue)>>]
    ELSE w

send_header_three_fields(w) ==
    send_header(send_header(send_header(w, "Cache-Control", NoCacheValue),
                            "Pragma", "no-cache"), "Expires", "0")

send_header_after_end(w) ==
    send_header(super_end_headers(w), "Cache-Control", NoCacheValue)

\* Line 5 of src/server.py: self.send_header("Cache-Control", ...).
NoCacheHandler_send_header(w) == send_header(w, "Cache-Control", NoCacheValue)

\* A variant of line 6 that leaves the inherited call out.
super_call_missing(w) == w

\* Line 6 of src/server.py: super().end_headers().
NoCacheHandler_super(w) == super_end_headers(w)

\* NoCacheHandler.end_headers, lines 4-6.
NoCacheHandler_end_headers(w) == NoCacheHandler_super(NoCacheHandler_send_header(w))

\* BaseHTTPRequestHandler.handle_expect_100 as each class runs it.
handle_expect_100(w) ==
    NoCacheHandler_end_headers(send_response_only(w, 100, "Continue"))

base_handle_expect_100(w) ==
    super_end_headers(send_response_only(w, 100, "Continue"))

\* ------------------------------------------------------ parsing the request
ValidVersion(v) == v \in {"HTTP/1.0", "HTTP/1.1", "HTTP/0.9", "HTTP/2.0"}

\* int(version_number[0]), int(version_number[1]) of a valid version.
VersionNumber(v) ==
    CASE v = "HTTP/1.0" -> <<1, 0>>
      [] v = "HTTP/1.1" -> <<1, 1>>
      [] v = "HTTP/0.9" -> <<0, 9>>
      [] v = "HTTP/2.0" -> <<2, 0>>
      [] OTHER          -> <<0, 0>>

\* Python's >= on pairs.
GE(a, b) == a[1] > b[1] \/ (a[1] = b[1] /\ a[2] >= b[2])

\* What parse_request and the method lookup of handle_one_request decide:
\* the handler's fields and what runs next.  next is "done" (nothing is
\* sent), "send_error" (with code and message) or "send_head".
Parsed(rv, command, path, close, next, code, message, expect100) ==
    [rv |-> rv, command |-> command, path |-> path, close |-> close,
     next |-> next, code |-> code, message |-> message, expect100 |-> expect100]

NoPath == Path(<<>>, TRUE)

parse_request(r) ==
    LET words == r.words
        n == Len(words)
        version == words[n].s
        vn == VersionNumber(version)
        close1 == IF n >= 3 /\ ValidVersion(version) /\ GE(vn, <<1, 1>>)
                     /\ GE(protocol_version, <<1, 1>>)
                  THEN FALSE ELSE TRUE
        rv == IF n >= 3 THEN version ELSE default_request_version
        command == words[1].s
        path == words[2].p
        close2 == IF n = 2 THEN TRUE ELSE close1
        conntype == Lower(r.hdr.conn)
        close3 == IF conntype = "close" THEN TRUE
                  ELSE IF conntype = "keep-alive" /\ GE(protocol_version, <<1, 1>>)
                       THEN FALSE ELSE close2
        expect100 == r.hdr.expect /\ GE(protocol_version, <<1, 1>>)
                     /\ GE(VersionNumber(rv), <<1, 1>>)
    IN  IF n = 0
        THEN Parsed(default_request_version, None, NoPath, TRUE, "done", 0, "", FALSE)
        ELSE IF n >= 3 /\ ~ValidVersion(version)
        THEN Parsed(default_request_version, None, NoPath, TRUE,
                    "send_error", 400, "Bad request version", FALSE)
        ELSE IF n >= 3 /\ GE(vn, <<2, 0>>)
        THEN Parsed(default_request_version, None, NoPath, close1,
                    "send_error", 505, "Invalid HTTP version", FALSE)
        ELSE IF ~(2 <= n /\ n <= 3)
        THEN Parsed(rv, None, NoPath, close1,
                    "send_error", 400, "Bad request syntax", FALSE)
        ELSE IF n = 2 /\ command # "GET"
        THEN Parsed(rv, None, NoPath, TRUE,
                    "send_error", 400, "Bad HTTP/0.9 request type", FALSE)
        ELSE IF r.hdr.fault = "LineTooLong"
        THEN Parsed(rv, command, path, close2,
                    "send_error", 431, "Line too long", FALSE)
        ELSE IF r.hdr.fault = "TooMany"
        THEN Parsed(rv, command, path, close2,
                    "send_error", 431, "Too many headers", FALSE)
        ELSE Parsed(rv, command, path, close3, "send_head", 0, "", expect100)

\* handle_one_request up to the call of the method: the read of the request
\* line, parse_request and the lookup of do_<command>.
handle_one_request(r) ==
    IF r.raw = "long"
    THEN Parsed("", "", NoPath, TRUE, "send_error", 414, "Request-URI Too Long", FALSE)
    ELSE IF r.raw = "eof"
    THEN Parsed(default_request_version, None, NoPath, TRUE, "done", 0, "", FALSE)
    ELSE LET p == parse_request(r)
         IN  IF p.next = "send_head" /\ p.command \notin {"GET", "HEAD"}
             THEN [p EXCEPT !.next = "send_error", !.code = 501,
                            !.message = "Unsupported method"]
             ELSE p

\* -------------------------------------------------------------- the state
VARIABLES
    srv,     \* where serve_forever is: "select", "busy" or "stopped"
    conn,    \* each connection: "idle", "queued", "active" or "closed"
    hdl,     \* the handler object of each connection, NoHandler when none
    memo,    \* an earlier request, the response it got and the connection
             \* it came on, or NoMemo
    clock    \* the time, which every accepted connection advances

vars == <<srv, conn, hdl, memo, clock>>

NoBody == Tok("none", 0, "", "")

\* A handler object.  w is the response NoCacheHandler builds; b is the
\* response the unmodified SimpleHTTPRequestHandler builds from the same
\* request, kept beside it for comparison.
Handler(pc, req, command, path, w, b, body, code, message, now) ==
    [pc |-> pc, req |-> req, command |-> command, path |-> path, w |-> w,
     b |-> b, body |-> body, code |-> code, message |-> message, now |-> now]

NoReq == Req("none", <<>>, NoHdr)

NoHandler ==
    Handler("none", NoReq, None, NoPath, Writer("", TRUE), Writer("", TRUE),
            NoBody, 0, "", 0)

NoMemo == [req |-> NoReq, resp |-> <<>>, at |-> 0]

\* A variant of finish_request whose handlers share one header buffer, as
\* a class-level list would be: a handler made after the first one finds in
\* it what earlier handlers appended.
finish_request_shared_buffer(now) ==
    LET stale == IF now > 1 THEN <<Tok("hdr", 0, "Cache-Control", NoCacheValue)>>
                 ELSE <<>>
    IN  Handler("readline", NoReq, None, NoPath,
                [Writer("", TRUE) EXCEPT !.buf = stale],
                [Writer("", TRUE) EXCEPT !.buf = stale], NoBody, 0, "", now)

\* finish_request: RequestHandlerClass(request, client_address, self), a
\* new handler object whose setup() opens new rfile and wfile objects and
\* whose handle() sets close_connection; the handler shares nothing with
\* the handlers before it.
finish_request(now) ==
    Handler("readline", NoReq, None, NoPath, Writer("", TRUE), Writer("", TRUE),
            NoBody, 0, "", now)

\* process_request as ThreadingMixIn has it: the handler runs in a thread
\* of its own and the serve loop goes back to select at once.
process_request_threaded == "select"

\* BaseServer.process_request of the server class line 8 instantiates:
\* finish_request runs inside it, so the serve loop is busy until the
\* handler returns.
process_request == "busy"

\* A serve loop that lets a handler's exception through: it ends.
handle_error_reraise == "stopped"

\* _handle_request_noblock's except Exception: handle_error and
\* shutdown_request, after which the loop goes on.
handle_error == "select"

Init ==
    /\ srv = "select"
    /\ conn = [c \in Conns |-> "idle"]
    /\ hdl = [c \in Conns |-> NoHandler]
    /\ memo = NoMemo
    /\ clock = 0

\* A client connects: the connection waits in the listen queue.
Connect(c) ==
    /\ conn[c] = "idle"
    /\ \A d \in Conns : d < c => conn[d] # "idle"
    /\ conn' = [conn EXCEPT ![c] = "queued"]
    /\ UNCHANGED <<srv, hdl, memo, clock>>

\* serve_forever: select reports the listening socket readable,
\* get_request accepts the oldest queued connection, process_request
\* starts its handler.
Accept(c) ==
    /\ srv = "select"
    /\ conn[c] = "queued"
    /\ \A d \in Conns : d < c => conn[d] # "queued"
    /\ conn' = [conn EXCEPT ![c] = "active"]
    /\ hdl' = [hdl EXCEPT ![c] = finish_request(clock + 1)]
    /\ srv' = process_request
    /\ clock' = clock + 1
    /\ UNCHANGED memo

\* handle_one_request: the request line is read and parsed, and the
\* method is looked up.
ReadRequest(c) ==
    /\ conn[c] = "active"
    /\ hdl[c].pc = "readline"
    /\ \E r \in Requests :
         LET p == handle_one_request(r)
             h == hdl[c]
             w0 == [h.w EXCEPT !.rv = p.rv, !.close = p.close]
             b0 == [h.b EXCEPT !.rv = p.rv, !.close = p.close]
         IN  hdl' = [hdl EXCEPT ![c] =
                 [h EXCEPT !.req = r, !.command = p.command, !.path = p.path,
                           !.w = IF p.expect100 THEN handle_expect_100(w0) ELSE w0,
                           !.b = IF p.expect100 THEN base_handle_expect_100(b0) ELSE b0,
                           !.code = p.code, !.message = p.message, !.body = NoBody,
                           !.pc = IF p.next = "done" THEN "handled" ELSE p.next]]
    /\ UNCHANGED <<srv, conn, memo, clock>>

\* A variant of the index lookup that never finds an index file.
use_index_never(e, path) == FALSE

\* send_head's lookup of index.html in a directory asked for with a
\* trailing slash.
use_index(e, path) == e.kind = "dir" /\ path.slash /\ e.index # ""

\* SimpleHTTPRequestHandler.send_head (with list_directory): the status
\* and the headers of the default file-serving policy go to the header
\* buffer, and the body to copy is chosen.  The result has pc "send_error"
\* when the policy answers with an error page, "end_headers" otherwise.
send_head(h) ==
    LET e == FS(h.path.segs)
        isdir == e.kind = "dir"
        useIndex == use_index(e, h.path)
        content == IF useIndex THEN e.index ELSE e.content
        ims == h.req.hdr.ims
        conditional == ims # 0 /\ ~h.req.hdr.inm
        Err(message) == [h EXCEPT !.pc = "send_error", !.code = 404,
                                  !.message = message]
        Reply(f(_), body) == [h EXCEPT !.pc = "end_headers", !.w = f(h.w),
                                   !.b = f(h.b), !.body = body]
        Moved(w) == send_header(send_header(
                        send_response(w, 301, "Moved Permanently", h.now),
                        "Location", "path/"), "Content-Length", "0")
        Listing(w) == send_header(send_header(
                        send_response(w, 200, "OK", h.now),
                        "Content-type", "text/html; charset"),
                        "Content-Length", "listing")
        NotModified(w) == send_response(w, 304, "Not Modified", h.now)
        File(w) == send_header(send_header(send_header(
                        send_response(w, 200, "OK", h.now),
                        "Content-type", "ctype"),
                        "Content-Length", content), "Last-Modified", "mtime")
    IN  IF isdir /\ ~h.path.slash
        THEN Reply(Moved, NoBody)
        ELSE IF isdir /\ ~useIndex
        THEN IF e.listable
             THEN Reply(Listing, Tok("body", 0, "listing", ""))
             ELSE Err("No permission to list directory")
        ELSE IF ~useIndex /\ h.path.slash
        THEN Err("File not found")
        ELSE IF ~useIndex /\ (e.kind # "file" \/ ~e.readable)
        THEN Err("File not found")
        ELSE IF conditional /\ ims # -1 /\ FileMtime <= ims
        THEN Reply(NotModified, NoBody)
        ELSE Reply(File, Tok("body", Size(content), "file", content))

\* do_GET or do_HEAD calls send_head.
SendHead(c) ==
    /\ conn[c] = "active"
    /\ hdl[c].pc = "send_head"
    /\ hdl' = [hdl EXCEPT ![c] = send_head(hdl[c])]
    /\ UNCHANGED <<srv, conn, memo, clock>>

\* send_error up to its call of end_headers: status line, Server, Date,
\* Connection: close and, for a status that has a body, the headers of the
\* error page.
send_error(w, code, message, now) ==
    LET w1 == send_header(send_response(w, code, message, now), "Connection", "close")
    IN  IF code >= 200 /\ code \notin {204, 205, 304}
        THEN send_header(send_header(w1, "Content-Type", "text/html;charset=utf-8"),
                         "Content-Length", "error-page")
        ELSE w1

SendError(c) ==
    /\ conn[c] = "active"
    /\ hdl[c].pc = "send_error"
    /\ LET h == hdl[c]
       IN  hdl' = [hdl EXCEPT ![c] =
               [h EXCEPT !.w = send_error(h.w, h.code, h.message, h.now),
                         !.b = send_error(h.b, h.code, h.message, h.now),
                         !.body = IF h.code >= 200 /\ h.code \notin {204, 205, 304}
                                  THEN Tok("body", h.code, "error", h.message)
                                  ELSE NoBody,
                         !.pc = "end_headers"]]
    /\ UNCHANGED <<srv, conn, memo, clock>>

\* NoCacheHandler.end_headers, line 5: the Cache-Control field is added.
\* The unmodified handler has no such step.
EndHeadersInject(c) ==
    /\ conn[c] = "active"
    /\ hdl[c].pc = "end_headers"
    /\ hdl' = [hdl EXCEPT ![c] =
           [hdl[c] EXCEPT !.w = NoCacheHandler_send_header(@), !.pc = "super"]]
    /\ UNCHANGED <<srv, conn, memo, clock>>

\* NoCacheHandler.end_headers, line 6: the inherited end_headers ends the
\* header block and writes it to the connection.  The write raises when
\* the client has gone; the buffer is then left as it was.
EndHeadersSuper(c) ==
    /\ conn[c] = "active"
    /\ hdl[c].pc = "super"
    /\ \E sent \in BOOLEAN :
         hdl' = [hdl EXCEPT ![c] =
             IF sent \/ hdl[c].w.rv = "HTTP/0.9"
             THEN [hdl[c] EXCEPT !.w = NoCacheHandler_super(@),
                                 !.b = super_end_headers(@), !.pc = "body"]
             ELSE [hdl[c] EXCEPT !.pc = "raised"]]
    /\ UNCHANGED <<srv, conn, memo, clock>>

\* Whether the body chosen is written: do_GET copies the file, do_HEAD
\* closes it, send_error writes its page unless the command is HEAD.
WritesBody(h) ==
    /\ h.body # NoBody
    /\ IF h.body.k = "error" THEN h.command # "HEAD" ELSE h.command = "GET"

\* The body is written to the connection: copyfile, or send_error's
\* wfile.write.  A read of the file or a write to the connection can raise.
WriteBody(c) ==
    /\ conn[c] = "active"
    /\ hdl[c].pc = "body"
    /\ \E sent \in BOOLEAN :
         hdl' = [hdl EXCEPT ![c] =
             IF ~WritesBody(hdl[c])
             THEN [hdl[c] EXCEPT !.pc = "handled"]
             ELSE IF sent
             THEN [hdl[c] EXCEPT !.w.wire = Append(@, hdl[c].body),
                                 !.b.wire = Append(@, hdl[c].body),
                                 !.pc = "handled"]
             ELSE [hdl[c] EXCEPT !.pc = "raised"]]
    /\ UNCHANGED <<srv, conn, memo, clock>>

\* handle(): another request is read while close_connection is false;
\* otherwise the handler finishes, shutdown_request closes the connection
\* and the serve loop returns to select.
Finish(c) ==
    /\ conn[c] = "active"
    /\ hdl[c].pc = "handled"
    /\ IF ~hdl[c].w.close
       THEN /\ hdl' = [hdl EXCEPT ![c].pc = "readline"]
            /\ UNCHANGED <<srv, conn, memo>>
       ELSE /\ hdl' = [hdl EXCEPT ![c] = NoHandler]
            /\ conn' = [conn EXCEPT ![c] = "closed"]
            /\ srv' = "select"
            /\ UNCHANGED memo
    /\ UNCHANGED clock

\* An observer of the connection notes a request and the complete response
\* to it, to compare later responses with.  No step of the program.
Remember(c) ==
    /\ conn[c] = "active"
    /\ hdl[c].pc = "handled"
    /\ hdl[c].w.close
    /\ memo = NoMemo
    /\ memo' = [req |-> hdl[c].req, resp |-> hdl[c].w.wire, at |-> c]
    /\ UNCHANGED <<srv, conn, hdl, clock>>

\* An exception leaves the handler: _handle_request_noblock catches it,
\* reports it and closes the connection.
HandleError(c) ==
    /\ conn[c] = "active"
    /\ hdl[c].pc = "raised"
    /\ hdl' = [hdl EXCEPT ![c] = NoHandler]
    /\ conn' = [conn EXCEPT ![c] = "closed"]
    /\ srv' = handle_error
    /\ UNCHANGED <<memo, clock>>

Next ==
    \E c \in Conns :
        \/ Connect(c)
        \/ Accept(c)
        \/ ReadRequest(c)
        \/ SendHead(c)
        \/ SendError(c)
        \/ EndHeadersInject(c)
        \/ EndHeadersSuper(c)
        \/ WriteBody(c)
        \/ Finish(c)
        \/ HandleError(c)
        \/ Remember(c)

Spec == Init /\ [][Next]_vars

\* The steps a handler takes once it has read its request: they are the
\* steps of the server's single thread, which runs whenever it can (a
\* write ends when the client has read or has gone).
HandlerStep ==
    \E c \in Conns :
        \/ SendHead(c)
        \/ SendError(c)
        \/ EndHeadersInject(c)
        \/ EndHeadersSuper(c)
        \/ WriteBody(c)
        \/ Finish(c)
        \/ HandleError(c)

\* The steps of the server: accepting, reading a request (which waits for
\* the client) and handling it.
ServerStep ==
    \/ \E c \in Conns : Accept(c) \/ ReadRequest(c)
    \/ HandlerStep

\* The server and its clients, without the observer.
Serve == ServerStep \/ \E c \in Conns : Connect(c)

FairSpec == Init /\ [][Serve]_vars /\ WF_vars(HandlerStep)

\* ------------------------------------------------- reading a response
CacheControl == Tok("hdr", 0, "Cache-Control", NoCacheValue)

\* The places of the fields named k in what was written.
FieldsAt(wire, k) == {i \in DOMAIN wire : wire[i].t = "hdr" /\ wire[i].k = k}

\* The response begins with a status line.
HasStatusLine(wire) == wire # <<>> /\ wire[1].t = "status"

\* The status code of the status line, 0 when there is none.
Status(wire) == IF HasStatusLine(wire) THEN wire[1].code ELSE 0

\* The bodies written.
Bodies(wire) == {wire[i] : i \in {j \in DOMAIN wire : wire[j].t = "body"}}

\* The response carries the no-cache header: a Cache-Control field is
\* there and every Cache-Control field has exactly the no-cache value.
CarriesNoCache(wire) ==
    /\ FieldsAt(wire, "Cache-Control") # {}
    /\ \A i \in FieldsAt(wire, "Cache-Control") : wire[i].v = NoCacheValue

NotCacheControl(t) == ~(t.t = "hdr" /\ t.k = "Cache-Control")

NotDate(t) == ~(t.t = "hdr" /\ t.k = "Date")

\* What was written, without its Cache-Control fields.
WithoutCacheControl(wire) == SelectSeq(wire, NotCacheControl)

\* What was written, without its Date field, whose value is the time.
WithoutDate(wire) == SelectSeq(wire, NotDate)

\* The handlers whose response is complete.
Handled == {c \in Conns : hdl[c].pc = "handled"}

\* The complete responses that are not empty: the requests answered.
Answered == {c \in Handled : hdl[c].w.wire # <<>>}

\* The request line has a method, a target and a version HTTP/1.0 or
\* HTTP/1.1, and the header block parses.
WellFormed(r) ==
    /\ r.raw = "ok"
    /\ Len(r.words) = 3
    /\ r.words[3].s \in {"HTTP/1.0", "HTTP/1.1"}
    /\ r.hdr.fault = ""

Method(r) == r.words[1].s

Target(r) == r.words[2].p

\* If-Modified-Since decides: it is there without If-None-Match, is
\* well formed and is not earlier than the file's modification time.
NotModifiedSince(r) ==
    r.hdr.ims # 0 /\ ~r.hdr.inm /\ r.hdr.ims # -1 /\ FileMtime <= r.hdr.ims

\* ------------------------------------------------------------- the claims
\* The directory, file or nothing a request target names.
Resolves(p) == FS(p.segs)

ResolvesToFile(p) ==
    ~p.slash /\ Resolves(p).kind = "file" /\ Resolves(p).readable

FileBody(content) == Tok("body", Size(content), "file", content)

\* C1, as stated: every response the server sends, whatever its status and
\* whatever the method or HTTP version of the request line, has a
\* Cache-Control header equal to "no-cache, no-store, must-revalidate".
C1_Original ==
    \A c \in Answered : CarriesNoCache(hdl[c].w.wire)

\* C1, amended: every response that begins with a status line, which
\* every response to a request line ending in HTTP/1.0 or HTTP/1.1 does,
\* has a Cache-Control header equal to the no-cache value, whatever the
\* status and the method; a response to a request handled as HTTP/0.9 has
\* no status line and no header at all.
C1_NoCacheOnEveryStatusLine ==
    \A c \in Answered :
        LET h == hdl[c]
            wire == h.w.wire
        IN  /\ HasStatusLine(wire) <=> h.w.rv # "HTTP/0.9"
            /\ h.req.raw = "ok" /\ Len(h.req.words) >= 3
               /\ h.req.words[Len(h.req.words)].s \in {"HTTP/1.0", "HTTP/1.1"}
               => HasStatusLine(wire)
            /\ IF HasStatusLine(wire)
               THEN CarriesNoCache(wire)
               ELSE \A i \in DOMAIN wire : wire[i].t = "body"

\* An error response to a POST is complete and carries the header.
C1_Witness ==
    \E c \in Answered :
        /\ Status(hdl[c].w.wire) = 501
        /\ CarriesNoCache(hdl[c].w.wire)

\* C2, as stated: a GET of an existing readable file gets status 200, the
\* file's contents as body and the no-cache header, whatever request
\* headers the client sends, conditional ones included.
C2_Original ==
    \A c \in Handled :
        LET r == hdl[c].req
            wire == hdl[c].w.wire
        IN  WellFormed(r) /\ Method(r) = "GET" /\ ResolvesToFile(Target(r))
            => /\ Status(wire) = 200
               /\ Bodies(wire) = {FileBody(Resolves(Target(r)).content)}
               /\ CarriesNoCache(wire)

\* C2, amended: a GET with version HTTP/1.0 or HTTP/1.1, whose header
\* block parses, of an existing
\* readable file gets status 200, the file's contents as body and the
\* no-cache header, unless it carries a well-formed If-Modified-Since not
\* earlier than the file's modification time and no If-None-Match: it then
\* gets status 304, no body and the no-cache header.
C2_FileUnlessNotModified ==
    \A c \in Handled :
        LET r == hdl[c].req
            wire == hdl[c].w.wire
        IN  WellFormed(r) /\ Method(r) = "GET" /\ ResolvesToFile(Target(r))
            => /\ CarriesNoCache(wire)
               /\ IF NotModifiedSince(r)
                  THEN Status(wire) = 304 /\ Bodies(wire) = {}
                  ELSE /\ Status(wire) = 200
                       /\ Bodies(wire) = {FileBody(Resolves(Target(r)).content)}

\* A GET with an If-Modified-Since earlier than the file's modification
\* time has been answered with the file.
C2_Witness ==
    \E c \in Handled :
        LET r == hdl[c].req
        IN  /\ WellFormed(r) /\ Method(r) = "GET" /\ ResolvesToFile(Target(r))
            /\ r.hdr.ims # 0 /\ ~NotModifiedSince(r)
            /\ Status(hdl[c].w.wire) = 200
            /\ Bodies(hdl[c].w.wire) = {FileBody("file-bytes")}

\* C3, as stated: every request for a path that names nothing under the
\* root gets status 404 and the no-cache header.
C3_Original ==
    \A c \in Handled :
        LET r == hdl[c].req
            wire == hdl[c].w.wire
        IN  WellFormed(r) /\ Resolves(Target(r)).kind = "none"
            => Status(wire) = 404 /\ CarriesNoCache(wire)

\* C3, amended: every GET or HEAD request with version HTTP/1.0 or
\* HTTP/1.1, whose header block parses, for a path that names nothing under the root gets status 404
\* and the no-cache header.
C3_MissingGetOrHead ==
    \A c \in Handled :
        LET r == hdl[c].req
            wire == hdl[c].w.wire
        IN  WellFormed(r) /\ Method(r) \in {"GET", "HEAD"}
              /\ Resolves(Target(r)).kind = "none"
            => Status(wire) = 404 /\ CarriesNoCache(wire)

\* A HEAD for a missing path has been answered 404 with the header.
C3_Witness ==
    \E c \in Handled :
        LET r == hdl[c].req
        IN  /\ WellFormed(r) /\ Method(r) = "HEAD"
            /\ Resolves(Target(r)).kind = "none"
            /\ Status(hdl[c].w.wire) = 404
            /\ CarriesNoCache(hdl[c].w.wire)

ListingBody == Tok("body", 0, "listing", "")

\* C4, as stated: a request for a directory, with or without a trailing
\* slash, gets status 200, the index file or a listing as body, and the
\* no-cache header.  (Taken for a GET of a directory that can be listed,
\* without conditional headers.)
C4_Original ==
    \A c \in Handled :
        LET r == hdl[c].req
            wire == hdl[c].w.wire
            e == Resolves(Target(r))
        IN  WellFormed(r) /\ Method(r) = "GET" /\ e.kind = "dir" /\ e.listable
              /\ r.hdr.ims = 0
            => /\ Status(wire) = 200
               /\ Bodies(wire) =
                    {IF e.index # "" THEN FileBody(e.index) ELSE ListingBody}
               /\ CarriesNoCache(wire)

\* C4, amended: a GET or HEAD with version HTTP/1.0 or HTTP/1.1, whose
\* header block parses, for a
\* directory carries the no-cache header and gets: without a trailing
\* slash, status 301 with a Location and no body; with one, the index
\* file, served as a file is (200 with its contents, or 304), if the
\* directory has one, otherwise status 200 with a generated listing, or
\* 404 if the directory cannot be listed.  A HEAD gets no body.
C4_DirectoryBySlash ==
    \A c \in Handled :
        LET r == hdl[c].req
            wire == hdl[c].w.wire
            e == Resolves(Target(r))
            body(b) == IF Method(r) = "GET" THEN {b} ELSE {}
        IN  WellFormed(r) /\ Method(r) \in {"GET", "HEAD"} /\ e.kind = "dir"
            => /\ CarriesNoCache(wire)
               /\ IF ~Target(r).slash
                  THEN /\ Status(wire) = 301
                       /\ FieldsAt(wire, "Location") # {}
                       /\ Bodies(wire) = {}
                  ELSE IF e.index # ""
                  THEN IF NotModifiedSince(r)
                       THEN Status(wire) = 304 /\ Bodies(wire) = {}
                       ELSE Status(wire) = 200
                            /\ Bodies(wire) = body(FileBody(e.index))
                  ELSE IF e.listable
                  THEN Status(wire) = 200 /\ Bodies(wire) = body(ListingBody)
                  ELSE Status(wire) = 404

\* A GET of the root, which holds an index file, has been answered with
\* that file.
C4_Witness ==
    \E c \in Handled :
        LET r == hdl[c].req
        IN  /\ WellFormed(r) /\ Method(r) = "GET"
            /\ Target(r) = Path(<<>>, TRUE)
            /\ Status(hdl[c].w.wire) = 200
            /\ Bodies(hdl[c].w.wire) = {FileBody("<h1>hi</h1>")}
            /\ CarriesNoCache(hdl[c].w.wire)

\* C5, as stated: the same request issued twice over the unchanged
\* filesystem, with any requests in between, gets two responses equal in
\* status, headers (the Date aside) and body, each with the no-cache
\* header.
C5_Original ==
    \A c \in Answered :
        memo # NoMemo /\ memo.req = hdl[c].req
        => /\ WithoutDate(hdl[c].w.wire) = WithoutDate(memo.resp)
           /\ CarriesNoCache(hdl[c].w.wire)
           /\ CarriesNoCache(memo.resp)

\* C5, amended: the same request issued twice over the unchanged
\* filesystem, with any requests in between, gets two responses equal in
\* status, headers (the Date aside) and body; each has the no-cache header
\* if it begins with a status line, and neither has any header otherwise.
C5_SameRequestSameResponse ==
    \A c \in Handled :
        memo # NoMemo /\ memo.req = hdl[c].req
        => /\ WithoutDate(hdl[c].w.wire) = WithoutDate(memo.resp)
           /\ HasStatusLine(memo.resp) => CarriesNoCache(memo.resp)
           /\ HasStatusLine(hdl[c].w.wire) => CarriesNoCache(hdl[c].w.wire)
           /\ ~HasStatusLine(hdl[c].w.wire)
              => \A i \in DOMAIN hdl[c].w.wire : hdl[c].w.wire[i].t = "body"

\* The request the first connection made has been made again on the
\* third, after the second connection was served, and got the same
\* response at a later time.
C5_Witness ==
    /\ memo # NoMemo
    /\ memo.at = 1
    /\ 3 \in Handled
    /\ memo.req = hdl[3].req
    /\ Status(memo.resp) = 200
    /\ hdl[3].w.wire # memo.resp
    /\ WithoutDate(hdl[3].w.wire) = WithoutDate(memo.resp)

Active == {c \in Conns : conn[c] = "active"}

\* C6: connections are handled strictly one at a time: at most one is
\* being received, processed or answered, the serve loop is busy while it
\* is, and a connection is accepted only after every earlier one has been
\* answered and closed.
C6_OneAtATime ==
    /\ Cardinality(Active) <= 1
    /\ Active # {} => srv = "busy"
    /\ \A c, d \in Conns :
         c < d /\ conn[d] \in {"active", "closed"}
         => conn[c] = "closed" /\ hdl[c] = NoHandler

\* The second connection is being answered after the first was closed,
\* while a third waits to be accepted.
C6_Witness ==
    /\ MaxConns >= 3
    /\ conn[1] = "closed"
    /\ conn[2] = "active"
    /\ hdl[2].pc = "body"
    /\ conn[3] = "queued"

\* C7, as stated: no byte of a response reaches the connection before the
\* Cache-Control field has been placed in its header block.
C7_Original ==
    \A c \in Active :
        hdl[c].w.wire # <<>>
        => FieldsAt(hdl[c].w.wire, "Cache-Control") # {}

HeaderSteps == {"readline", "send_head", "send_error", "end_headers", "super"}

\* C7, amended: in every response that has a status line, the
\* Cache-Control field is added after the status line and the base
\* handler's own headers and before anything is written: nothing is on
\* the connection until the header block is ended, the block then holds
\* the status line, the base headers and Cache-Control as its last field,
\* and only the body follows it.  A response to a request handled as
\* HTTP/0.9 is a body alone.
C7_InjectedBeforeTransmission ==
    \A c \in Active :
        LET h == hdl[c]
            wire == h.w.wire
            buf == h.w.buf
            n == Len(buf)
        IN  /\ h.pc \in HeaderSteps => wire = <<>>
            /\ h.pc = "super" /\ h.w.rv # "HTTP/0.9"
               => /\ n >= 2
                  /\ buf[1].t = "status"
                  /\ buf[n] = CacheControl
                  /\ SubSeq(buf, 1, n - 1) = h.b.buf
            /\ HasStatusLine(wire)
               => \E i \in DOMAIN wire :
                    /\ wire[i] = CacheControl
                    /\ i + 1 \in DOMAIN wire
                    /\ wire[i + 1].t = "end"
                    /\ \A j \in 2..(i - 1) : wire[j].t = "hdr"
                    /\ \A j \in (i + 2)..Len(wire) : wire[j].t = "body"
            /\ wire # <<>> /\ ~HasStatusLine(wire)
               => /\ h.w.rv = "HTTP/0.9"
                  /\ \A i \in DOMAIN wire : wire[i].t = "body"

\* The header block of a 200 response, Cache-Control its last field, is
\* on the connection and the body is about to be written.
C7_Witness ==
    \E c \in Active :
        LET wire == hdl[c].w.wire
        IN  /\ hdl[c].pc = "body"
            /\ WritesBody(hdl[c])
            /\ Status(wire) = 200
            /\ Len(wire) >= 3
            /\ wire[Len(wire) - 1] = CacheControl
            /\ Bodies(wire) = {}

\* C8: the override changes nothing else: at every step the status line,
\* the headers other than Cache-Control, the body and close_connection
\* are those of the unmodified handler for the same request, which itself
\* sends no Cache-Control.
C8_OnlyCacheControlDiffers ==
    \A c \in Conns :
        hdl[c].pc # "none"
        => /\ WithoutCacheControl(hdl[c].w.wire) = hdl[c].b.wire
           /\ WithoutCacheControl(hdl[c].w.buf) = hdl[c].b.buf
           /\ hdl[c].w.close = hdl[c].b.close
           /\ FieldsAt(hdl[c].b.wire, "Cache-Control") = {}

\* A 404 error page has been sent: it differs from the unmodified
\* handler's response, and only by the Cache-Control field.
C8_Witness ==
    \E c \in Handled :
        /\ Status(hdl[c].w.wire) = 404
        /\ Bodies(hdl[c].b.wire) # {}
        /\ hdl[c].w.wire # hdl[c].b.wire
        /\ WithoutCacheControl(hdl[c].w.wire) = hdl[c].b.wire

OtherCacheFields(wire) == FieldsAt(wire, "Pragma") \cup FieldsAt(wire, "Expires")

\* C9, as stated: every response has the Cache-Control field exactly
\* once, and the override adds this one field and no other.
C9_Original ==
    \A c \in Answered :
        /\ Cardinality(FieldsAt(hdl[c].w.wire, "Cache-Control")) = 1
        /\ Len(hdl[c].w.wire) = Len(hdl[c].b.wire) + 1
        /\ OtherCacheFields(hdl[c].w.wire) = {}

\* C9, amended: every response that has a status line has the
\* Cache-Control field exactly once, and the override adds this one field
\* and no other; to a response without status line (a request handled as
\* HTTP/0.9) it adds nothing.
C9_ExactlyOnceWithStatusLine ==
    \A c \in Answered :
        LET wire == hdl[c].w.wire
        IN  /\ OtherCacheFields(wire) = {}
            /\ IF HasStatusLine(wire)
               THEN /\ Cardinality(FieldsAt(wire, "Cache-Control")) = 1
                    /\ Len(wire) = Len(hdl[c].b.wire) + 1
               ELSE wire = hdl[c].b.wire

\* A 304 response, which has no body, is complete with one Cache-Control.
C9_Witness ==
    \E c \in Answered :
        /\ Status(hdl[c].w.wire) = 304
        /\ Cardinality(FieldsAt(hdl[c].w.wire, "Cache-Control")) = 1
        /\ Len(hdl[c].w.wire) = Len(hdl[c].b.wire) + 1

\* A handler has read its request, or found the connection closed.
RequestRead == \E c \in Active : hdl[c].pc # "readline"

====
